---- MODULE Spec2Model ----
(***************************************************************************)
(* certgraph: concurrent breadth-first traversal of the host names found   *)
(* in TLS certificates (src/main.go).                                      *)
(*                                                                         *)
(* Strings are sequences of ASCII codes, so that strings.ToLower,          *)
(* directDomain and sort.Strings are computed, not assumed.                *)
(*                                                                         *)
(* Goroutines: main, the dispatcher (BFS, lines 141-179), the save         *)
(* goroutine (lines 183-194) and one worker per admitted item (lines       *)
(* 158-174).  Every action is one step of one goroutine that touches       *)
(* shared state (a channel operation, a WaitGroup operation).              *)
(***************************************************************************)
EXTENDS Integers, Sequences, FiniteSets, TLC

\* ------------------------------------------------------------------------
\* Bounds of the model: the -parallel and -depth flags range over
\* 0..MaxParallel and 0..MaxMaxDepth.
MaxParallel == 2
MaxMaxDepth == 2
\* The certificates handed to BFSPeers' derivation on its own carry up to
\* MaxSan DNS names.
MaxSan == 3

\* make(chan *DomainNode, 5), both channels
DomainChanCap == 5
DomainGraphChanCap == 5

\* ------------------------------------------------------------------------
\* Host names used by the modelled networks (ASCII codes).
sA == <<97, 46, 116, 101, 115, 116>>                          \* "a.test"
sB == <<98, 46, 116, 101, 115, 116>>                          \* "b.test"
sBupper == <<66, 46, 84, 101, 115, 116>>                      \* "B.Test"
sC == <<99, 46, 116, 101, 115, 116>>                          \* "c.test"
sExample == <<101, 120, 97, 109, 112, 108, 101, 46, 99, 111, 109>>   \* "example.com"
sWildExample == <<42, 46>> \o sExample                        \* "*.example.com"
sHub == <<104, 117, 98>>                                      \* "hub"
sP == <<112>>                                                 \* "p"
sQ == <<113>>                                                 \* "q"
sR == <<114, 46, 105, 111>>                                   \* "r.io"
sRupper == <<82, 46, 73, 79>>                                 \* "R.IO"
sM == <<109, 46, 105, 111>>                                   \* "m.io"
sF == <<102, 46, 105, 111>>                                   \* "f.io"
sG == <<103, 46, 105, 111>>                                   \* "g.io"
sS == <<115>>                                                 \* "s"
sT == <<116>>                                                 \* "t"
sU == <<117>>                                                 \* "u"
sV == <<118>>                                                 \* "v"
sX == <<120>>                                                 \* "x"
sY == <<121>>                                                 \* "y"
sZ == <<122>>                                                 \* "z"
Wild(s) == <<42, 46>> \o s                                    \* "*." + s

\* An x509 certificate, as far as BFSPeers reads it.
Cert(cn, sans) == [CommonName |-> cn, DNSNames |-> sans]
\* The outcome of tls.DialWithDialer: an error kind ("nil" for none) and
\* the peer certificate chain.
Up(chain) == [err |-> "nil", certs |-> chain]
Down(kind) == [err |-> kind, certs |-> <<>>]

\* The networks the traversal is run against: the -host flag and what each
\* host answers.  A host that is not listed cannot be dialled.
\*  1: the chain a.test -> b.test -> c.test, c.test naming itself
\*  2: example.com discovered as "example.com" and as "*.example.com"
\*     from two different hosts
\*  3: fan-out 6 (more than the channel capacity), mutual reference
\*     r.io <-> m.io, a host that refuses the connection, an upper-case
\*     -host flag, a chain of two certificates, an empty DNS name
\*  4: u reachable from s directly and through t (two depths); v times out
\*  5: g.io names three hosts that cannot be dialled
Scenarios ==
  << [ host |-> sA,
       net  |-> (sA :> Up(<<Cert(sA, <<sBupper, sA>>)>>))
             @@ (sB :> Up(<<Cert(sB, <<sB, sC>>)>>))
             @@ (sC :> Up(<<Cert(<<>>, <<sC>>)>>)) ],
     [ host |-> sHub,
       net  |-> (sHub :> Up(<<Cert(<<>>, <<sP, sQ>>)>>))
             @@ (sP :> Up(<<Cert(<<>>, <<sExample>>)>>))
             @@ (sQ :> Up(<<Cert(<<>>, <<sWildExample>>)>>))
             @@ (sExample :> Up(<<Cert(sExample, << >>)>>)) ],
     [ host |-> sRupper,
       net  |-> (sR :> Up(<<Cert(sR, <<Wild(sR), sM, Wild(sM), sF, Wild(sF)>>),
                            Cert(<<>>, <<sM, <<>>>>)>>))
             @@ (sM :> Up(<<Cert(<<>>, <<sR>>)>>))
             @@ (sF :> Down("econnrefused")) ],
     [ host |-> sS,
       net  |-> (sS :> Up(<<Cert(<<>>, <<sT, sU>>)>>))
             @@ (sT :> Up(<<Cert(<<>>, <<sU>>)>>))
             @@ (sU :> Up(<<Cert(<<>>, <<sV>>)>>))
             @@ (sV :> Down("timeout")) ],
     [ host |-> sG,
       net  |-> (sG :> Up(<<Cert(<<>>, <<sX, sY, sZ>>)>>)) ] >>

\* ------------------------------------------------------------------------
VARIABLES
  scn,              \* which network the run is against
  parallel,         \* var parallel (flag -parallel)
  maxDepth,         \* var maxDepth (flag -depth)
  depth,            \* var depth
  markedDomains,    \* var markedDomains: the keys set to true
  domainGraph,      \* var domainGraph: key -> DomainNode
  wg,               \* the WaitGroup's counter
  domainChan,       \* buffered channel of frontier items
  domainGraphChan,  \* buffered channel of finished nodes
  graphChanClosed,  \* close(domainGraphChan) has run
  threadPass,       \* number of passes in the threadPass channel
  mainPc,           \* where main is
  dispPc,           \* where the dispatcher goroutine is
  dispNode,         \* the dispatcher's domainNode (<<>> when it holds none)
  savePc,           \* where the save goroutine is
  workers,          \* the worker goroutines, in the order they were started
  calls,            \* instrumentation: host -> number of getPeerCerts calls
  writes,           \* instrumentation: key -> number of writes to domainGraph
  stdout,           \* the lines printGraph has printed
  peerCerts,        \* a certificate chain handed to BFSPeers' derivation
  peerDomains       \* <<>> before the derivation, <<domains>> after it

vars == << scn, parallel, maxDepth, depth, markedDomains, domainGraph, wg,
           domainChan, domainGraphChan, graphChanClosed, threadPass, mainPc,
           dispPc, dispNode, savePc, workers, calls, writes, stdout,
           peerCerts, peerDomains >>

\* ------------------------------------------------------------------------
\* Pure functions

Range(s) == { s[i] : i \in 1..Len(s) }

\* the name is left as it is
ToLowerNot(s) == s

\* strings.ToLower on ASCII
ToLower(s) == [ i \in 1..Len(s) |-> IF s[i] >= 65 /\ s[i] <= 90 THEN s[i] + 32 ELSE s[i] ]

\* Go's string order: bytewise lexicographic, a proper prefix first
StringLess(a, b) ==
  \E i \in 1..Len(b) :
     /\ i - 1 <= Len(a)
     /\ SubSeq(a, 1, i - 1) = SubSeq(b, 1, i - 1)
     /\ \/ i = Len(a) + 1
        \/ i <= Len(a) /\ a[i] < b[i]

\* sort.Strings applied to the keys of a map, in whatever order they came:
\* the i-th string of the result is the one with i - 1 smaller strings
SortStrings(set) ==
  [ i \in 1..Cardinality(set) |->
      CHOOSE x \in set : Cardinality({ y \in set : StringLess(y, x) }) = i - 1 ]

\* only the "*" is cut off
directDomainStar(domain) ==
  IF Len(domain) < 3 THEN domain
  ELSE IF SubSeq(domain, 1, 2) = <<42, 46>> THEN SubSeq(domain, 2, Len(domain))
  ELSE domain

directDomain(domain) ==
  IF Len(domain) < 3 THEN domain
  ELSE IF SubSeq(domain, 1, 2) = <<42, 46>> THEN SubSeq(domain, 3, Len(domain))
  ELSE domain

checkNetErr(err) == err # "nil"

\* tls.DialWithDialer against the network of the run
Dial(host) ==
  LET net == Scenarios[scn].net
  IN  IF host \in DOMAIN net THEN net[host] ELSE Down("dial")

getPeerCerts(host) ==
  LET r == Dial(host)
  IN  IF checkNetErr(r.err) THEN <<>> ELSE r.certs

\* the DNS names are stored as they are written in the certificate
DomainMapSanRaw(certs) ==
  LET cn == ToLower(certs[1].CommonName)
      names == UNION { Range(c.DNSNames) : c \in Range(certs) }
  IN  (IF Len(cn) > 0 THEN {cn} ELSE {})
        \cup { d \in names : Len(d) > 0 }

\* lines 209-227: the keys of domainMap
DomainMap(certs) ==
  LET cn == ToLower(certs[1].CommonName)
      names == UNION { Range(c.DNSNames) : c \in Range(certs) }
  IN  (IF Len(cn) > 0 THEN {cn} ELSE {})
        \cup { ToLower(domain) : domain \in { d \in names : Len(d) > 0 } }

\* lines 205-233: what BFSPeers makes of the chain getPeerCerts returned
\* (x \in {e} binds x to the value of e, which is then computed once)
Domains(certs) ==
  IF Len(certs) = 0 THEN << >>
  ELSE CHOOSE domains \in { SortStrings(domainMap) : domainMap \in {DomainMap(certs)} } : TRUE

BFSPeers(host) ==
  CHOOSE domains \in { Domains(certs) : certs \in {getPeerCerts(host)} } : TRUE

startDomain == ToLower(Scenarios[scn].host)

\* &DomainNode{domain, depth, nil}; Neighbors is <<>> for nil and <<list>>
\* for a pointer to list
NewNode(domain, d) == [Domain |-> domain, Depth |-> d, Neighbors |-> <<>>]

Bump(f, k) == IF k \in DOMAIN f THEN [f EXCEPT ![k] = @ + 1] ELSE f @@ (k :> 1)

\* ------------------------------------------------------------------------
Init ==
  /\ scn \in 1..Len(Scenarios)
  /\ parallel \in 0..MaxParallel
  /\ maxDepth \in 0..MaxMaxDepth
  /\ depth = 0
  /\ markedDomains = {}
  /\ domainGraph = << >>
  /\ wg = 0
  /\ domainChan = << >>
  /\ domainGraphChan = << >>
  /\ graphChanClosed = FALSE
  /\ threadPass = 0
  /\ mainPc = "start"
  /\ dispPc = "off"
  /\ dispNode = << >>
  /\ savePc = "off"
  /\ workers = << >>
  /\ calls = << >>
  /\ writes = << >>
  /\ stdout = << >>
  /\ peerCerts = << >>
  /\ peerDomains = << >>

\* main, lines 109-112: parallel < 1
MainAbort ==
  /\ mainPc = "start"
  /\ parallel < 1
  /\ mainPc' = "exit"
  /\ UNCHANGED << peerCerts, peerDomains, scn, parallel, maxDepth, depth, markedDomains, domainGraph, wg,
                  domainChan, domainGraphChan, graphChanClosed, threadPass,
                  dispPc, dispNode, savePc, workers, calls, writes, stdout >>

\* BFS is entered whatever parallel is
BFSStartUnchecked ==
  /\ mainPc = "start"
  /\ threadPass' = parallel
  /\ wg' = wg + 1
  /\ domainChan' = Append(domainChan, NewNode(startDomain, 0))
  /\ dispPc' = "recv"
  /\ savePc' = "recv"
  /\ mainPc' = "wait"
  /\ UNCHANGED << peerCerts, peerDomains, scn, parallel, maxDepth, depth, markedDomains, domainGraph,
                  domainGraphChan, graphChanClosed, dispNode, workers, calls,
                  writes, stdout >>

\* main line 116 and BFS lines 129-194: fill threadPass, wg.Add(1), send
\* the root, start the dispatcher and the save goroutine
BFSStart ==
  /\ mainPc = "start"
  /\ ~(parallel < 1)
  /\ threadPass' = parallel
  /\ wg' = wg + 1
  /\ domainChan' = Append(domainChan, NewNode(startDomain, 0))
  /\ dispPc' = "recv"
  /\ savePc' = "recv"
  /\ mainPc' = "wait"
  /\ UNCHANGED << peerCerts, peerDomains, scn, parallel, maxDepth, depth, markedDomains, domainGraph,
                  domainGraphChan, graphChanClosed, dispNode, workers, calls,
                  writes, stdout >>

\* dispatcher, line 143: domainNode := <- domainChan
DispatcherRecv ==
  /\ dispPc = "recv"
  /\ Len(domainChan) > 0
  /\ dispNode' = <<Head(domainChan)>>
  /\ domainChan' = Tail(domainChan)
  /\ dispPc' = "check"
  /\ UNCHANGED << peerCerts, peerDomains, scn, parallel, maxDepth, depth, markedDomains, domainGraph, wg,
                  domainGraphChan, graphChanClosed, threadPass, mainPc, savePc,
                  workers, calls, writes, stdout >>

\* the worker's node is given the high-water mark as its depth
NewWorkerGlobalDepth(node) ==
  [pc |-> "pass", node |-> [node EXCEPT !.Depth = depth], neighbors |-> <<>>, next |-> 1]

\* the goroutine started at line 158, about to run line 161
NewWorker(node) == [pc |-> "pass", node |-> node, neighbors |-> <<>>, next |-> 1]

\* off by one: items of depth maxDepth + 1 pass
DepthExceededLate(domainNode) == domainNode.Depth > maxDepth + 1

\* off by one: items of depth maxDepth are skipped
DepthExceededEarly(domainNode) == domainNode.Depth >= maxDepth

\* line 146: domainNode.Depth > maxDepth
DepthExceeded(domainNode) == domainNode.Depth > maxDepth

\* the lookup made with the raw name instead of the canonical one
MarkedRaw(domainNode) == domainNode.Domain \in markedDomains

\* lines 155-156: markedDomains[directDomain(domainNode.Domain)]
Marked(domainNode) == directDomain(domainNode.Domain) \in markedDomains

\* the worker is started for a domain that is not entered in markedDomains
DispatcherCheckNoMark ==
  /\ dispPc = "check"
  /\ LET domainNode == dispNode[1]
     IN  IF DepthExceeded(domainNode)
         THEN /\ wg' = wg - 1
              /\ UNCHANGED << depth, markedDomains, workers >>
         ELSE /\ depth' = IF domainNode.Depth > depth THEN domainNode.Depth ELSE depth
              /\ IF ~Marked(domainNode)
                 THEN /\ workers' = Append(workers, NewWorker(domainNode))
                      /\ UNCHANGED << wg, markedDomains >>
                 ELSE /\ wg' = wg - 1
                      /\ UNCHANGED << markedDomains, workers >>
  /\ dispNode' = << >>
  /\ dispPc' = "recv"
  /\ UNCHANGED << peerCerts, peerDomains, scn, parallel, maxDepth, domainGraph, domainChan,
                  domainGraphChan, graphChanClosed, threadPass, mainPc, savePc,
                  calls, writes, stdout >>

\* the domain is entered in markedDomains before the depth is looked at
DispatcherCheckMarkFirst ==
  /\ dispPc = "check"
  /\ LET domainNode == dispNode[1]
         dDomain    == directDomain(domainNode.Domain)
     IN  /\ markedDomains' = markedDomains \cup {dDomain}
         /\ IF DepthExceeded(domainNode)
            THEN /\ wg' = wg - 1
                 /\ UNCHANGED << depth, workers >>
            ELSE /\ depth' = IF domainNode.Depth > depth THEN domainNode.Depth ELSE depth
                 /\ IF ~Marked(domainNode)
                    THEN /\ workers' = Append(workers, NewWorker(domainNode))
                         /\ UNCHANGED wg
                    ELSE /\ wg' = wg - 1
                         /\ UNCHANGED workers
  /\ dispNode' = << >>
  /\ dispPc' = "recv"
  /\ UNCHANGED << peerCerts, peerDomains, scn, parallel, maxDepth, domainGraph, domainChan,
                  domainGraphChan, graphChanClosed, threadPass, mainPc, savePc,
                  calls, writes, stdout >>

\* dispatcher, lines 145-177: depth check, high-water mark, dedup, spawn
DispatcherCheck ==
  /\ dispPc = "check"
  /\ LET domainNode == dispNode[1]
         dDomain    == directDomain(domainNode.Domain)
     IN  IF DepthExceeded(domainNode)
         THEN /\ wg' = wg - 1
              /\ UNCHANGED << depth, markedDomains, workers >>
         ELSE /\ depth' = IF domainNode.Depth > depth THEN domainNode.Depth ELSE depth
              /\ IF ~Marked(domainNode)
                 THEN /\ markedDomains' = markedDomains \cup {dDomain}
                      /\ workers' = Append(workers, NewWorker(domainNode))
                      /\ UNCHANGED wg
                 ELSE /\ wg' = wg - 1
                      /\ UNCHANGED << markedDomains, workers >>
  /\ dispNode' = << >>
  /\ dispPc' = "recv"
  /\ UNCHANGED << peerCerts, peerDomains, scn, parallel, maxDepth, domainGraph, domainChan,
                  domainGraphChan, graphChanClosed, threadPass, mainPc, savePc,
                  calls, writes, stdout >>

\* ------------------------------------------------------------------------
\* Worker goroutine w, lines 158-174

\* the worker goes on without a pass
WorkerPassFree(w) ==
  /\ workers[w].pc = "pass"
  /\ workers' = [workers EXCEPT ![w].pc = "visit"]
  /\ UNCHANGED << peerCerts, peerDomains, scn, parallel, maxDepth, depth, markedDomains, domainGraph, wg,
                  domainChan, domainGraphChan, graphChanClosed, threadPass, mainPc,
                  dispPc, dispNode, savePc, calls, writes, stdout >>

\* line 161: <-threadPass
WorkerPass(w) ==
  /\ workers[w].pc = "pass"
  /\ threadPass > 0
  /\ threadPass' = threadPass - 1
  /\ workers' = [workers EXCEPT ![w].pc = "visit"]
  /\ UNCHANGED << peerCerts, peerDomains, scn, parallel, maxDepth, depth, markedDomains, domainGraph, wg,
                  domainChan, domainGraphChan, graphChanClosed, mainPc, dispPc,
                  dispNode, savePc, calls, writes, stdout >>

\* a host that gives no certificate is dropped: the worker returns
\* without sending its node
WorkerVisitDropFailed(w) ==
  /\ workers[w].pc = "visit"
  /\ LET dDomain == directDomain(workers[w].node.Domain)
     IN  \E neighbors \in {BFSPeers(dDomain)} :
           /\ calls' = Bump(calls, dDomain)
           /\ workers' = [workers EXCEPT ![w].pc = IF Len(getPeerCerts(dDomain)) = 0
                                                   THEN "release" ELSE "emit",
                                         ![w].neighbors = neighbors,
                                         ![w].node.Neighbors = <<neighbors>>]
  /\ UNCHANGED << peerCerts, peerDomains, scn, parallel, maxDepth, depth, markedDomains, domainGraph, wg,
                  domainChan, domainGraphChan, graphChanClosed, threadPass,
                  mainPc, dispPc, dispNode, savePc, writes, stdout >>

\* lines 165-168: neighbors := BFSPeers(dDomain); domainNode.Neighbors = &neighbors
WorkerVisit(w) ==
  /\ workers[w].pc = "visit"
  /\ LET dDomain == directDomain(workers[w].node.Domain)
     IN  \E neighbors \in {BFSPeers(dDomain)} :
           /\ calls' = Bump(calls, dDomain)
           /\ workers' = [workers EXCEPT ![w].pc = "emit",
                                         ![w].neighbors = neighbors,
                                         ![w].node.Neighbors = <<neighbors>>]
  /\ UNCHANGED << peerCerts, peerDomains, scn, parallel, maxDepth, depth, markedDomains, domainGraph, wg,
                  domainChan, domainGraphChan, graphChanClosed, threadPass,
                  mainPc, dispPc, dispNode, savePc, writes, stdout >>

\* where the range loop of line 170 goes next
LoopPc(w, next) == IF next <= Len(workers[w].neighbors) THEN "add" ELSE "release"

\* line 169: domainGraphChan <- domainNode (a send on a closed channel
\* panics and ends the process)
WorkerEmit(w) ==
  /\ workers[w].pc = "emit"
  /\ mainPc # "panic"
  /\ IF graphChanClosed
     THEN /\ mainPc' = "panic"
          /\ UNCHANGED << domainGraphChan, workers >>
     ELSE /\ Len(domainGraphChan) < DomainGraphChanCap
          /\ domainGraphChan' = Append(domainGraphChan, workers[w].node)
          /\ workers' = [workers EXCEPT ![w].pc = LoopPc(w, 1)]
          /\ UNCHANGED mainPc
  /\ UNCHANGED << peerCerts, peerDomains, scn, parallel, maxDepth, depth, markedDomains, domainGraph, wg,
                  domainChan, graphChanClosed, threadPass, dispPc,
                  dispNode, savePc, calls, writes, stdout >>

\* the item is sent without wg.Add(1)
WorkerAddSkipped(w) ==
  /\ workers[w].pc = "add"
  /\ workers' = [workers EXCEPT ![w].pc = "send"]
  /\ UNCHANGED << peerCerts, peerDomains, scn, parallel, maxDepth, depth, markedDomains, domainGraph, wg,
                  domainChan, domainGraphChan, graphChanClosed, threadPass,
                  mainPc, dispPc, dispNode, savePc, calls, writes, stdout >>

\* line 171: wg.Add(1)
WorkerAdd(w) ==
  /\ workers[w].pc = "add"
  /\ wg' = wg + 1
  /\ workers' = [workers EXCEPT ![w].pc = "send"]
  /\ UNCHANGED << peerCerts, peerDomains, scn, parallel, maxDepth, depth, markedDomains, domainGraph,
                  domainChan, domainGraphChan, graphChanClosed, threadPass,
                  mainPc, dispPc, dispNode, savePc, calls, writes, stdout >>

\* line 172: domainChan <- &DomainNode{neighbor, domainNode.Depth + 1, nil}
WorkerSend(w) ==
  /\ workers[w].pc = "send"
  /\ Len(domainChan) < DomainChanCap
  /\ LET neighbor == workers[w].neighbors[workers[w].next]
     IN  domainChan' = Append(domainChan, NewNode(neighbor, workers[w].node.Depth + 1))
  /\ workers' = [workers EXCEPT ![w].next = @ + 1,
                                ![w].pc = LoopPc(w, workers[w].next + 1)]
  /\ UNCHANGED << peerCerts, peerDomains, scn, parallel, maxDepth, depth, markedDomains, domainGraph, wg,
                  domainGraphChan, graphChanClosed, threadPass, mainPc, dispPc,
                  dispNode, savePc, calls, writes, stdout >>

\* the pass is not given back
WorkerReleaseLost(w) ==
  /\ workers[w].pc = "release"
  /\ workers' = [workers EXCEPT ![w].pc = "wgdone"]
  /\ UNCHANGED << peerCerts, peerDomains, scn, parallel, maxDepth, depth, markedDomains, domainGraph, wg,
                  domainChan, domainGraphChan, graphChanClosed, threadPass, mainPc,
                  dispPc, dispNode, savePc, calls, writes, stdout >>

\* line 162, deferred: threadPass <- true
WorkerRelease(w) ==
  /\ workers[w].pc = "release"
  /\ threadPass < parallel
  /\ threadPass' = threadPass + 1
  /\ workers' = [workers EXCEPT ![w].pc = "wgdone"]
  /\ UNCHANGED << peerCerts, peerDomains, scn, parallel, maxDepth, depth, markedDomains, domainGraph, wg,
                  domainChan, domainGraphChan, graphChanClosed, mainPc, dispPc,
                  dispNode, savePc, calls, writes, stdout >>

\* line 159, deferred: wg.Done()
WorkerDone(w) ==
  /\ workers[w].pc = "wgdone"
  /\ wg' = wg - 1
  /\ workers' = [workers EXCEPT ![w].pc = "done"]
  /\ UNCHANGED << peerCerts, peerDomains, scn, parallel, maxDepth, depth, markedDomains, domainGraph,
                  domainChan, domainGraphChan, graphChanClosed, threadPass,
                  mainPc, dispPc, dispNode, savePc, calls, writes, stdout >>

\* ------------------------------------------------------------------------
\* Save goroutine, lines 183-194

\* the node is stored under its name as it was found, "*." included
SaveNodeRawKey ==
  /\ savePc = "recv"
  /\ Len(domainGraphChan) > 0
  /\ LET domainNode == Head(domainGraphChan)
         dDomain    == domainNode.Domain
     IN  /\ domainGraph' = [ k \in DOMAIN domainGraph \cup {dDomain} |->
                               IF k = dDomain THEN domainNode ELSE domainGraph[k] ]
         /\ writes' = Bump(writes, dDomain)
  /\ domainGraphChan' = Tail(domainGraphChan)
  /\ UNCHANGED << peerCerts, peerDomains, scn, parallel, maxDepth, depth, markedDomains, wg, domainChan,
                  graphChanClosed, threadPass, mainPc, dispPc, dispNode, savePc,
                  workers, calls, stdout >>

\* lines 185-188: a node arrives; domainGraph[dDomain] = domainNode
SaveNode ==
  /\ savePc = "recv"
  /\ Len(domainGraphChan) > 0
  /\ LET domainNode == Head(domainGraphChan)
         dDomain    == directDomain(domainNode.Domain)
     IN  /\ domainGraph' = [ k \in DOMAIN domainGraph \cup {dDomain} |->
                               IF k = dDomain THEN domainNode ELSE domainGraph[k] ]
         /\ writes' = Bump(writes, dDomain)
  /\ domainGraphChan' = Tail(domainGraphChan)
  /\ UNCHANGED << peerCerts, peerDomains, scn, parallel, maxDepth, depth, markedDomains, wg, domainChan,
                  graphChanClosed, threadPass, mainPc, dispPc, dispNode, savePc,
                  workers, calls, stdout >>

\* the close is taken for the end although nodes are still buffered
SaveClosedEarly ==
  /\ savePc = "recv"
  /\ graphChanClosed
  /\ savePc' = "ack"
  /\ UNCHANGED << peerCerts, peerDomains, scn, parallel, maxDepth, depth, markedDomains, domainGraph, wg,
                  domainChan, domainGraphChan, graphChanClosed, threadPass,
                  mainPc, dispPc, dispNode, workers, calls, writes, stdout >>

\* lines 185, 189-190: the channel is closed and drained; on to done <- true
SaveClosed ==
  /\ savePc = "recv"
  /\ Len(domainGraphChan) = 0
  /\ graphChanClosed
  /\ savePc' = "ack"
  /\ UNCHANGED << peerCerts, peerDomains, scn, parallel, maxDepth, depth, markedDomains, domainGraph, wg,
                  domainChan, domainGraphChan, graphChanClosed, threadPass,
                  mainPc, dispPc, dispNode, workers, calls, writes, stdout >>

\* ------------------------------------------------------------------------
\* main, in BFS lines 196-198 and after it

\* line 196: wg.Wait() returns
MainWait ==
  /\ mainPc = "wait"
  /\ wg = 0
  /\ mainPc' = "close"
  /\ UNCHANGED << peerCerts, peerDomains, scn, parallel, maxDepth, depth, markedDomains, domainGraph, wg,
                  domainChan, domainGraphChan, graphChanClosed, threadPass,
                  dispPc, dispNode, savePc, workers, calls, writes, stdout >>

\* line 197: close(domainGraphChan)
MainClose ==
  /\ mainPc = "close"
  /\ graphChanClosed' = TRUE
  /\ mainPc' = "ack"
  /\ UNCHANGED << peerCerts, peerDomains, scn, parallel, maxDepth, depth, markedDomains, domainGraph, wg,
                  domainChan, domainGraphChan, threadPass, dispPc, dispNode,
                  savePc, workers, calls, writes, stdout >>

\* lines 190-191 and 198: done is unbuffered, so done <- true and <-done
\* happen together; the save goroutine returns and BFS returns
DoneHandshake ==
  /\ mainPc = "ack"
  /\ savePc = "ack"
  /\ savePc' = "exit"
  /\ mainPc' = "print"
  /\ UNCHANGED << peerCerts, peerDomains, scn, parallel, maxDepth, depth, markedDomains, domainGraph, wg,
                  domainChan, domainGraphChan, graphChanClosed, threadPass,
                  dispPc, dispNode, workers, calls, writes, stdout >>

\* printGraph, lines 86-97: one line per key, keys sorted; *Neighbors of a
\* nil pointer panics
printGraph ==
  LET domains == SortStrings(DOMAIN domainGraph)
  IN  [ i \in 1..Len(domains) |->
          << domains[i], domainGraph[domains[i]].Depth,
             domainGraph[domains[i]].Neighbors[1] >> ]

\* main, lines 118-125
MainPrint ==
  /\ mainPc = "print"
  /\ IF \E k \in DOMAIN domainGraph : domainGraph[k].Neighbors = << >>
     THEN mainPc' = "panic" /\ UNCHANGED stdout
     ELSE mainPc' = "exit" /\ stdout' = printGraph
  /\ UNCHANGED << peerCerts, peerDomains, scn, parallel, maxDepth, depth, markedDomains, domainGraph, wg,
                  domainChan, domainGraphChan, graphChanClosed, threadPass,
                  dispPc, dispNode, savePc, workers, calls, writes >>

\* ------------------------------------------------------------------------
Next ==
  \/ MainAbort
  \/ BFSStart
  \/ DispatcherRecv
  \/ DispatcherCheck
  \/ \E w \in DOMAIN workers : WorkerPass(w)
  \/ \E w \in DOMAIN workers : WorkerVisit(w)
  \/ \E w \in DOMAIN workers : WorkerEmit(w)
  \/ \E w \in DOMAIN workers : WorkerAdd(w)
  \/ \E w \in DOMAIN workers : WorkerSend(w)
  \/ \E w \in DOMAIN workers : WorkerRelease(w)
  \/ \E w \in DOMAIN workers : WorkerDone(w)
  \/ SaveNode
  \/ SaveClosed
  \/ MainWait
  \/ MainClose
  \/ DoneHandshake
  \/ MainPrint

Spec == Init /\ [][Next]_vars

\* The Go scheduler runs every goroutine that can take a step: the run does
\* not stop while some goroutine is runnable.
FairSpec == Spec /\ WF_vars(Next)

\* The runs against the first network (the chain a.test, b.test, c.test)
ChainInit == Init /\ scn = 1
FairChain == ChainInit /\ [][Next]_vars /\ WF_vars(Next)

\* ------------------------------------------------------------------------
\* BFSPeers' derivation on its own: the chain getPeerCerts returned is drawn
\* from CertChains and lines 205-233 are applied to it.

\* the names a certificate may carry: empty, lower case, mixed case
PeerNames == { << >>, sA, sB, sBupper }
SanLists == UNION { [1..n -> PeerNames] : n \in 0..MaxSan }
\* no chain (the dial failed), a leaf, a leaf and its issuer
CertChains ==
  { << >> }
    \cup { <<Cert(cn, sans)>> : cn \in { << >>, sA, sBupper }, sans \in SanLists }
    \cup { <<Cert(cn, sans), Cert(sC, <<sM>>)>> :
              cn \in { << >>, sA, sBupper }, sans \in SanLists }

PeersInit ==
  /\ peerCerts \in CertChains
  /\ peerDomains = << >>
  /\ scn = 1
  /\ parallel = 1
  /\ maxDepth = 0
  /\ depth = 0
  /\ markedDomains = {}
  /\ domainGraph = << >>
  /\ wg = 0
  /\ domainChan = << >>
  /\ domainGraphChan = << >>
  /\ graphChanClosed = FALSE
  /\ threadPass = 0
  /\ mainPc = "start"
  /\ dispPc = "off"
  /\ dispNode = << >>
  /\ savePc = "off"
  /\ workers = << >>
  /\ calls = << >>
  /\ writes = << >>
  /\ stdout = << >>

\* lines 205-233 applied to peerCerts
DerivePeers ==
  /\ peerDomains = << >>
  /\ peerDomains' = << Domains(peerCerts) >>
  /\ UNCHANGED << peerCerts, scn, parallel, maxDepth, depth, markedDomains,
                  domainGraph, wg, domainChan, domainGraphChan, graphChanClosed,
                  threadPass, mainPc, dispPc, dispNode, savePc, workers, calls,
                  writes, stdout >>

PeersNext == DerivePeers
PeersSpec == PeersInit /\ [][PeersNext]_vars

\* ------------------------------------------------------------------------
\* Properties

\* BFS has returned to main
BFSReturned == mainPc \in {"print", "exit"} /\ savePc = "exit"

\* the workers that are inside BFSPeers / getPeerCerts
InResolver == { w \in DOMAIN workers : workers[w].pc = "visit" }

\* the workers that wait for a pass
AwaitingPass == { w \in DOMAIN workers : workers[w].pc = "pass" }

\* every DomainNode there is: queued, held by the dispatcher, owned by a
\* worker, on its way to the save goroutine, or committed
AllNodes ==
  Range(domainChan) \cup Range(dispNode) \cup { workers[w].node : w \in DOMAIN workers }
    \cup Range(domainGraphChan) \cup { domainGraph[k] : k \in DOMAIN domainGraph }

\* the neighbor list of the node committed under key k
NeighborsOf(k) == domainGraph[k].Neighbors[1]

\* the canonical domains named by the committed nodes of depth <= d
NamedUpTo(d) ==
  { directDomain(n) :
      n \in UNION { Range(NeighborsOf(k)) :
                      k \in { j \in DOMAIN domainGraph : domainGraph[j].Depth <= d } } }

\* the canonical domains for which an item of depth <= maxDepth was made
Within == {directDomain(startDomain)} \cup NamedUpTo(maxDepth - 1)

\* the canonical domains reached only by items of depth > maxDepth
Beyond == NamedUpTo(maxDepth) \ Within

\* The steps the goroutines have taken so far, counted from the state.
WorkerSteps(w) ==
  LET n == Len(workers[w].neighbors)
      i == workers[w].next
      pc == workers[w].pc
  IN  CASE pc = "pass"    -> 0
        [] pc = "visit"   -> 1
        [] pc = "emit"    -> 2
        [] pc = "add"     -> 3 + 2 * (i - 1)
        [] pc = "send"    -> 4 + 2 * (i - 1)
        [] pc = "release" -> 3 + 2 * n
        [] pc = "wgdone"  -> 4 + 2 * n
        [] pc = "done"    -> 5 + 2 * n

RECURSIVE SumOver(_, _)
SumOver(f, n) == IF n = 0 THEN 0 ELSE f[n] + SumOver(f, n - 1)

ItemsSent ==
  (IF dispPc = "off" THEN 0 ELSE 1)
    + SumOver([w \in DOMAIN workers |-> workers[w].next - 1], Len(workers))

NodesEmitted == Cardinality({ w \in DOMAIN workers : workers[w].pc \notin {"pass", "visit", "emit"} })

Steps ==
  (CASE mainPc = "start" -> 0 [] mainPc = "wait" -> 1 [] mainPc = "close" -> 2
     [] mainPc = "ack" -> 3 [] mainPc = "print" -> 4 [] mainPc = "exit" -> 5
     [] mainPc = "panic" -> 6)
  + SumOver([w \in DOMAIN workers |-> WorkerSteps(w)], Len(workers))
  + 2 * (ItemsSent - Len(domainChan)) - (IF dispPc = "check" THEN 1 ELSE 0)
  + (NodesEmitted - Len(domainGraphChan))
  + (CASE savePc = "ack" -> 1 [] savePc = "exit" -> 2 [] OTHER -> 0)

\* C1: once BFS is entered (so parallel >= 1), whatever the certificate
\* graph, the depth limit and the fan-out: as long as BFS has not returned
\* some goroutine can take a step (no deadlock), every step adds to the
\* count of steps taken, so that no state is ever visited twice (no cycle),
\* and BFS returns only with the WaitGroup counter at zero.  The reachable
\* states being finitely many, every run in which a runnable goroutine is
\* eventually run reaches the return of BFS.
C1_Termination ==
  /\ [](mainPc \in {"wait", "close", "ack"} => ENABLED Next)
  /\ [][Steps' > Steps]_vars
  /\ [](mainPc = "print" => wg = 0)

\* BFS has returned from the network with fan-out 6, a self reference and
\* a mutual reference, all three hosts visited
C1_Witness ==
  /\ scn = 3
  /\ mainPc = "print"
  /\ wg = 0
  /\ DOMAIN calls = {sR, sM, sF}

\* C2: never more than `parallel` workers are inside the resolver.
C2_BoundedConcurrency == Cardinality(InResolver) <= parallel

\* every pass is in use by a resolver call while more than `parallel`
\* admitted workers wait for one
C2_Witness ==
  /\ Cardinality(InResolver) = parallel
  /\ Cardinality(AwaitingPass) > parallel

\* C3: the resolver is called at most once per canonical domain, the save
\* goroutine writes each key of domainGraph at most once, and an entry of
\* domainGraph, once written, is never changed or removed.
C3_OncePerDomain ==
  /\ [](/\ \A h \in DOMAIN calls : calls[h] = 1
        /\ \A k \in DOMAIN writes : writes[k] = 1
        /\ DOMAIN writes = DOMAIN domainGraph)
  /\ [][\A k \in DOMAIN domainGraph :
           k \in DOMAIN domainGraph' /\ domainGraph'[k] = domainGraph[k]]_vars

\* example.com was named by two hosts (in two forms), and was resolved and
\* committed once
C3_Witness ==
  /\ scn = 2
  /\ BFSReturned
  /\ sExample \in DOMAIN domainGraph
  /\ calls[sExample] = 1
  /\ {sP, sQ} \subseteq DOMAIN domainGraph

\* C4: no worker exists for an item of depth > maxDepth, and no node of
\* depth > maxDepth ever has a neighbor list.
C4_DepthBound ==
  /\ \A w \in DOMAIN workers : workers[w].node.Depth <= maxDepth
  /\ \A n \in AllNodes : n.Depth > maxDepth => n.Neighbors = << >>

\* the run against the chain with maxDepth = 1 is over: c.test was named by
\* b.test, its items had depth 2, and it was never resolved
C4_Witness ==
  /\ scn = 1
  /\ maxDepth = 1
  /\ BFSReturned
  /\ sC \in Range(NeighborsOf(sB))
  /\ DOMAIN calls = {sA, sB}

\* C5 as claimed: a node of depth exactly maxDepth is not resolved and no
\* item of depth maxDepth + 1 is made.
C5_Original ==
  /\ \A w \in DOMAIN workers :
        workers[w].node.Depth = maxDepth =>
          /\ workers[w].node.Neighbors = << >>
          /\ directDomain(workers[w].node.Domain) \notin DOMAIN calls
  /\ \A n \in AllNodes : n.Depth <= maxDepth

\* C5, amended: a node admitted at depth exactly maxDepth is expanded like
\* any other and recorded: its worker calls the resolver once, takes the
\* neighbor list the resolver gives, sends one item of depth maxDepth + 1
\* for every neighbor, and the node is in domainGraph when BFS returns.  No
\* item is deeper than maxDepth + 1, and none of those is recorded.
C5_ExpandedAtLimit ==
  /\ \A w \in DOMAIN workers :
        LET node == workers[w].node
            dDomain == directDomain(node.Domain)
        IN  node.Depth = maxDepth =>
              /\ workers[w].pc \in {"release", "wgdone", "done"} =>
                    /\ calls[dDomain] = 1
                    /\ node.Neighbors = <<BFSPeers(dDomain)>>
                    /\ workers[w].next = Len(BFSPeers(dDomain)) + 1
              /\ BFSReturned =>
                    dDomain \in DOMAIN domainGraph /\ domainGraph[dDomain] = node
  /\ \A n \in AllNodes : n.Depth <= maxDepth + 1
  /\ \A k \in DOMAIN domainGraph : domainGraph[k].Depth <= maxDepth
  /\ BFSReturned /\ maxDepth = 0 => DOMAIN domainGraph = {directDomain(startDomain)}

\* the seed, at depth 0 = maxDepth, was resolved and has named other hosts
C5_Witness ==
  /\ BFSReturned
  /\ maxDepth = 0
  /\ scn = 1
  /\ NeighborsOf(sA) = <<sA, sB>>
  /\ calls[sA] = 1

\* C6 as claimed: when BFS has returned, the domains reached only by items
\* of depth > maxDepth are nodes of domainGraph.
C6_Original == BFSReturned => Beyond \subseteq DOMAIN domainGraph

\* C6, amended: a domain reached only by items of depth > maxDepth is not
\* recorded in domainGraph (it only appears in the neighbor lists of the
\* nodes that name it), is not admitted and is not resolved; domainGraph
\* holds exactly the domains for which an item of depth <= maxDepth was made.
C6_BeyondNotRecorded ==
  BFSReturned =>
    /\ Beyond \cap (DOMAIN domainGraph \cup markedDomains \cup DOMAIN calls) = {}
    /\ DOMAIN domainGraph = Within

\* a run is over in which some domain was named only beyond the limit
C6_Witness == BFSReturned /\ Beyond # {}

\* C7: when BFS has returned, every admitted domain has its node, with its
\* neighbor list, in domainGraph; the save goroutine does not write to
\* domainGraph once it has sent on done; main prints the graph only after
\* having received from done.
C7_GraphComplete ==
  /\ [](BFSReturned =>
          \A k \in markedDomains :
             k \in DOMAIN domainGraph /\ domainGraph[k].Neighbors # << >>)
  /\ [][savePc = "exit" => domainGraph' = domainGraph]_vars
  /\ [][stdout' # stdout => savePc = "exit" /\ domainGraph' = domainGraph]_vars

\* BFS has returned with four nodes committed, the last of them sent to the
\* save goroutine just before the WaitGroup counter reached zero
C7_Witness ==
  /\ mainPc = "print"
  /\ savePc = "exit"
  /\ Cardinality(markedDomains) = 4
  /\ Cardinality(DOMAIN domainGraph) = 4

\* C8: directDomain maps "*.example.com" and "example.com" to "example.com",
\* and in a run where both forms are named (by q and by p) they make one
\* entry of markedDomains, one resolver call and one node.
C8_WildcardCollapses ==
  /\ directDomain(sWildExample) = sExample
  /\ directDomain(sExample) = sExample
  /\ sWildExample \notin (markedDomains \cup DOMAIN calls \cup DOMAIN domainGraph)
  /\ sExample \in DOMAIN calls => calls[sExample] = 1
  /\ sExample \in DOMAIN writes => writes[sExample] = 1
  /\ Cardinality({ w \in DOMAIN workers :
                     directDomain(workers[w].node.Domain) = sExample }) <= 1
  /\ (scn = 2 /\ maxDepth >= 2 /\ BFSReturned) =>
        /\ sExample \in markedDomains
        /\ sExample \in DOMAIN domainGraph
        /\ sExample \in Range(NeighborsOf(sP))
        /\ sWildExample \in Range(NeighborsOf(sQ))

\* both forms were named, the wildcard form was admitted first, and there
\* is one node, under the key "example.com"
C8_Witness ==
  /\ scn = 2
  /\ BFSReturned
  /\ sExample \in DOMAIN domainGraph
  /\ domainGraph[sExample].Domain = sWildExample
  /\ calls[sExample] = 1
  /\ sExample \in Range(NeighborsOf(sP))
  /\ sWildExample \in Range(NeighborsOf(sQ))

\* the canonical domains whose resolution fails
Failing(domains) == { k \in domains : checkNetErr(Dial(k).err) }

\* C9: when BFS has returned, every host whose resolution failed, whatever
\* the failure, is a node with an empty neighbor list; the WaitGroup
\* counter is zero and all passes are back; every other admitted host is a
\* node with the neighbor list of its own certificates, and every domain
\* named by a node of depth < maxDepth is a node too: what the failed host
\* does not contribute is all that is missing.
C9_FailureIsolation ==
  BFSReturned =>
    /\ wg = 0
    /\ threadPass = parallel
    /\ markedDomains = DOMAIN domainGraph
    /\ \A k \in Failing(markedDomains) : domainGraph[k].Neighbors = << << >> >>
    /\ \A k \in markedDomains : domainGraph[k].Neighbors = <<BFSPeers(k)>>
    /\ NamedUpTo(maxDepth - 1) \subseteq DOMAIN domainGraph

\* f.io refused the connection and is a node without neighbors; m.io,
\* named by the same certificate, is a node with its neighbors
C9_Witness ==
  /\ scn = 3
  /\ BFSReturned
  /\ Dial(sF).err = "econnrefused"
  /\ sF \in DOMAIN domainGraph
  /\ domainGraph[sF].Neighbors = << << >> >>
  /\ sM \in DOMAIN domainGraph
  /\ NeighborsOf(sM) = <<sR>>
  /\ threadPass = parallel

\* the graph of the chain
ChainGraph ==
  (sA :> [Domain |-> sA, Depth |-> 0, Neighbors |-> << <<sA, sB>> >>])
    @@ (sB :> [Domain |-> sB, Depth |-> 1, Neighbors |-> << <<sB, sC>> >>])
    @@ (sC :> [Domain |-> sC, Depth |-> 2, Neighbors |-> << <<sC>> >>])

\* C10: against the chain a.test -> b.test -> c.test, with maxDepth >= 2
\* and parallel >= 1, every run comes to its end, and at the end of BFS
\* domainGraph is exactly: a.test, depth 0, [a.test b.test]; b.test, depth
\* 1, [b.test c.test]; c.test, depth 2, [c.test].
C10_ChainGraph ==
  /\ [](scn = 1 /\ maxDepth >= 2 /\ BFSReturned => domainGraph = ChainGraph)
  /\ (scn = 1 /\ maxDepth >= 2 /\ parallel >= 1)
        ~> (mainPc = "exit" /\ domainGraph = ChainGraph
              /\ stdout = << <<sA, 0, <<sA, sB>> >>, <<sB, 1, <<sB, sC>> >>,
                             <<sC, 2, <<sC>> >> >>)

\* the run against the chain is over with three nodes, c.test having named
\* itself
C10_Witness ==
  /\ scn = 1
  /\ maxDepth >= 2
  /\ mainPc = "exit"
  /\ Cardinality(DOMAIN domainGraph) = 3
  /\ NeighborsOf(sC) = <<sC>>
  /\ Len(stdout) = 3

\* ------------------------------------------------------------------------
\* the permutations of 1..n
Orders(n) == { f \in [1..n -> 1..n] : \A i \in 1..n : \E j \in 1..n : f[j] = i }
\* the chain with the DNS names of its leaf in the order f
Reordered(chain, f) ==
  [chain EXCEPT ![1].DNSNames = [ i \in 1..Len(@) |-> @[f[i]] ]]
\* the names BFSPeers is to return for a chain: the leaf's CommonName and
\* every DNS name of the chain, lower case, the empty ones left out
ExpectedNames(chain) ==
  { ToLower(n) : n \in { m \in {chain[1].CommonName}
                              \cup UNION { Range(c.DNSNames) : c \in Range(chain) } :
                        Len(m) > 0 } }

\* C11: the list derived from a certificate chain holds exactly the lower-cased
\* non-empty CommonName of the leaf and the lower-cased non-empty DNS names,
\* each once, in ascending order; for CN "a.test" and DNS names "B.Test",
\* "a.test" it is "a.test", "b.test"; and it is the same for every order of
\* the leaf's DNS names.
C11_NeighborList ==
  peerDomains # << >> =>
    LET domains == peerDomains[1]
    IN  IF Len(peerCerts) = 0 THEN domains = << >>
        ELSE /\ Range(domains) = ExpectedNames(peerCerts)
             /\ Len(domains) = Cardinality(Range(domains))
             /\ \A i \in 1..(Len(domains) - 1) : StringLess(domains[i], domains[i + 1])
             /\ \A i \in 1..Len(domains) :
                   /\ Len(domains[i]) > 0
                   /\ \A j \in 1..Len(domains[i]) : ~(domains[i][j] >= 65 /\ domains[i][j] <= 90)
             /\ peerCerts = <<Cert(sA, <<sBupper, sA>>)>> => domains = <<sA, sB>>
             /\ \A f \in Orders(Len(peerCerts[1].DNSNames)) :
                   Domains(Reordered(peerCerts, f)) = domains

\* the chain of the example has been derived
C11_Witness ==
  /\ peerCerts = <<Cert(sA, <<sBupper, sA>>)>>
  /\ peerDomains = << <<sA, sB>> >>

\* ------------------------------------------------------------------------
\* C12: with parallel < 1 main returns at line 111: BFS is never entered (no
\* dispatcher, no save goroutine, no worker), getPeerCerts is never called,
\* no item is ever in domainChan, the WaitGroup is never touched, and
\* domainGraph stays empty; nothing is printed.
C12_AbortAtStartup ==
  parallel < 1 =>
    /\ mainPc \in {"start", "exit"}
    /\ dispPc = "off" /\ savePc = "off"
    /\ workers = << >>
    /\ calls = << >>
    /\ domainChan = << >> /\ dispNode = << >> /\ domainGraphChan = << >>
    /\ wg = 0 /\ threadPass = 0
    /\ markedDomains = {}
    /\ domainGraph = << >> /\ writes = << >>
    /\ stdout = << >>

\* main has returned because of parallel < 1
C12_Witness == parallel < 1 /\ mainPc = "exit"

\* ------------------------------------------------------------------------
\* the workers between wg.Add(1) (line 171) and the send (line 172)
Enqueuing == { w \in DOMAIN workers : workers[w].pc = "send" }
\* the workers that have not yet run their wg.Done()
Unfinished == { w \in DOMAIN workers : workers[w].pc # "done" }
\* the items that are outstanding: queued in domainChan or about to be,
\* held by the dispatcher, or owned by a worker that has not finished
Outstanding ==
  Len(domainChan) + Cardinality(Enqueuing) + (IF dispPc = "check" THEN 1 ELSE 0)
    + Cardinality(Unfinished)

\* C13: the WaitGroup counter is never negative and is the number of
\* outstanding items, so it is zero only when there is none.  It goes up by
\* one, before the item is in domainChan (for the root: together with it,
\* no other goroutine running yet), and down by one, when the dispatcher
\* drops the item it holds (too deep or a duplicate) or when a worker that
\* has sent an item for each of its neighbors finishes.
C13_CounterIsOutstanding ==
  /\ [](wg >= 0 /\ wg = Outstanding)
  /\ [][ /\ wg' \in {wg - 1, wg, wg + 1}
         /\ wg' = wg + 1 =>
              \/ mainPc = "start"
              \/ /\ domainChan' = domainChan
                 /\ \E w \in DOMAIN workers : workers[w].pc = "add" /\ workers'[w].pc = "send"
         /\ wg' = wg - 1 =>
              \/ /\ dispPc = "check" /\ dispPc' = "recv" /\ workers' = workers
                 /\ \/ DepthExceeded(dispNode[1])
                    \/ Marked(dispNode[1])
              \/ \E w \in DOMAIN workers :
                    /\ workers[w].pc = "wgdone" /\ workers'[w].pc = "done"
                    /\ workers[w].next = Len(workers[w].neighbors) + 1
         /\ Len(domainChan') > Len(domainChan) => wg' = Outstanding'
       ]_vars

\* items of every kind are outstanding at once: queued, about to be sent,
\* held by the dispatcher and owned by workers
C13_Witness ==
  /\ Len(domainChan) > 0
  /\ Enqueuing # {}
  /\ dispPc = "check"
  /\ Cardinality(Unfinished) >= 2
  /\ \E w \in DOMAIN workers : workers[w].pc = "done"
  /\ wg >= 5

\* ------------------------------------------------------------------------
\* the workers that have taken a pass and not yet given it back
PassHolders ==
  { w \in DOMAIN workers : workers[w].pc \in {"visit", "emit", "add", "send", "release"} }

\* C14: once BFS has filled threadPass, the passes in the channel and the
\* workers holding one add up to parallel; a worker takes one pass before
\* it calls BFSPeers, and gives it back before its wg.Done(), whether the
\* host answered or not; so with the WaitGroup counter at zero no worker
\* holds a pass and all of them are in the channel.
C14_PassesConserved ==
  /\ [](dispPc # "off" =>
          /\ threadPass >= 0
          /\ threadPass + Cardinality(PassHolders) = parallel
          /\ wg = 0 => PassHolders = {} /\ threadPass = parallel)
  /\ [][ \A w \in DOMAIN workers :
           /\ workers[w].pc = "pass" /\ workers'[w].pc # "pass" => threadPass' = threadPass - 1
           /\ workers[w].neighbors # workers'[w].neighbors \/ calls' # calls =>
                \E v \in PassHolders : workers[v].pc = "visit"
           /\ workers[w].pc \in {"wgdone", "done"} => w \notin PassHolders'
           /\ workers[w].pc = "wgdone" /\ workers'[w].pc = "done" =>
                threadPass' = threadPass
       ]_vars

\* every pass is taken, one of the holders by a worker whose host gave no
\* certificate and one by a worker whose host did, both about to give it back
C14_Witness ==
  /\ parallel = 2 /\ threadPass = 0
  /\ AwaitingPass # {}
  /\ \E v, w \in PassHolders :
        /\ workers[v].pc = "release" /\ Len(getPeerCerts(directDomain(workers[v].node.Domain))) = 0
        /\ workers[w].pc = "release" /\ Len(getPeerCerts(directDomain(workers[w].node.Domain))) > 0

\* ------------------------------------------------------------------------
\* C15: markedDomains never loses a key, and every worker there is, whatever
\* it is doing, works on a canonical domain that is in markedDomains; a
\* worker is started only in the step that enters its domain.
C15_MarkedBeforeWorker ==
  /\ [](\A w \in DOMAIN workers : directDomain(workers[w].node.Domain) \in markedDomains)
  /\ [][ /\ markedDomains \subseteq markedDomains'
         /\ Len(workers') >= Len(workers)
         /\ Len(workers') > Len(workers) =>
              /\ Len(workers') = Len(workers) + 1
              /\ markedDomains' =
                   markedDomains \cup {directDomain(workers'[Len(workers')].node.Domain)}
              /\ directDomain(workers'[Len(workers')].node.Domain) \notin markedDomains
       ]_vars

\* three workers at once: one waits for a pass, one is in BFSPeers, one is
\* about to send its node
C15_Witness ==
  \E u, v, w \in DOMAIN workers :
     /\ workers[u].pc = "pass" /\ workers[v].pc = "visit" /\ workers[w].pc = "emit"
     /\ Cardinality(markedDomains) >= 4

\* ------------------------------------------------------------------------
\* the dispatcher runs lines 145-177 on the item it holds
DispatcherChecks == dispPc = "check" /\ dispPc' = "recv"

\* C16: the step in which the dispatcher finds the depth of its item above
\* maxDepth takes one off the WaitGroup counter and changes nothing else:
\* not markedDomains, not depth, not domainGraph, not threadPass, and no worker
\* is started.  The domain is therefore admitted as before by an item of depth
\* <= maxDepth: such an item, its domain not yet in markedDomains, is
\* admitted whatever was skipped earlier, and when BFS has returned every
\* domain for which an item of depth <= maxDepth was made is in markedDomains
\* and in domainGraph.
C16_DepthSkipFrame ==
  /\ [][ DispatcherChecks /\ dispNode[1].Depth > maxDepth =>
           /\ wg' = wg - 1
           /\ UNCHANGED << markedDomains, depth, domainGraph, threadPass, workers,
                           domainChan, domainGraphChan, graphChanClosed, calls, writes >>
       ]_vars
  /\ [][ /\ DispatcherChecks
         /\ dispNode[1].Depth <= maxDepth
         /\ directDomain(dispNode[1].Domain) \notin markedDomains
         => /\ directDomain(dispNode[1].Domain) \in markedDomains'
            /\ workers' = Append(workers, NewWorker(dispNode[1]))
       ]_vars
  /\ [](BFSReturned => Within \subseteq markedDomains /\ Within \subseteq DOMAIN domainGraph)

\* maxDepth = 1, the network where u is named by s and by t: the item for u
\* of depth 2 (from t) has been skipped, u is not in markedDomains, and the
\* worker of s is about to send the item for u of depth 1
C16_Witness ==
  /\ scn = 4 /\ maxDepth = 1
  /\ Len(workers) = 2
  /\ workers[1].pc \in {"add", "send"}
  /\ workers[1].neighbors[workers[1].next] = sU
  /\ workers[2].node.Domain = sT /\ workers[2].next = 2 /\ workers[2].neighbors = <<sU>>
  /\ domainChan = << >> /\ dispNode = << >>
  /\ sU \notin markedDomains
  /\ depth = 1

\* ------------------------------------------------------------------------
\* C17: the node of a worker is the item the dispatcher admitted, with that
\* item's depth; a canonical domain has at most one worker; the node
\* committed under a key is the node of that domain's worker; and neither a
\* worker's nor a committed node's depth ever changes, whatever items for
\* the domain come later.  (The admitted item need not be the one of the
\* least depth: see the witness.)
C17_FirstAdmittedDepth ==
  /\ [](/\ \A v, w \in DOMAIN workers :
              directDomain(workers[v].node.Domain) = directDomain(workers[w].node.Domain) => v = w
        /\ \A k \in DOMAIN domainGraph :
              \E w \in DOMAIN workers :
                 /\ directDomain(workers[w].node.Domain) = k
                 /\ domainGraph[k].Depth = workers[w].node.Depth
        /\ \A i \in 1..Len(domainGraphChan) :
              \E w \in DOMAIN workers : workers[w].node = domainGraphChan[i])
  /\ [][ /\ Len(workers') > Len(workers) =>
              /\ DispatcherChecks
              /\ workers'[Len(workers')].node = dispNode[1]
         /\ \A w \in DOMAIN workers :
              /\ workers'[w].node.Depth = workers[w].node.Depth
              /\ workers'[w].node.Domain = workers[w].node.Domain
         /\ \A k \in DOMAIN domainGraph :
              /\ k \in DOMAIN domainGraph'
              /\ domainGraph'[k].Depth = domainGraph[k].Depth
       ]_vars

\* u is named by the seed s, and yet recorded with depth 2: the item made
\* from t's certificate was admitted first
C17_Witness ==
  /\ scn = 4
  /\ BFSReturned
  /\ sU \in DOMAIN domainGraph
  /\ domainGraph[sU].Depth = 2
  /\ sU \in Range(NeighborsOf(sS))

\* ------------------------------------------------------------------------
\* the claim as it was made: the Domain of the node under key k is k
C18_Original == \A k \in DOMAIN domainGraph : domainGraph[k].Domain = k

\* C18: the node committed under key k is the node of the admitted item as
\* it was made, Domain included: directDomain of its Domain is k, and the
\* Domain itself is k or "*." followed by k.
C18_KeyIsDirectDomain ==
  \A k \in DOMAIN domainGraph :
     /\ directDomain(domainGraph[k].Domain) = k
     /\ domainGraph[k].Domain \in {k, Wild(k)}
     /\ \E w \in DOMAIN workers : workers[w].node = domainGraph[k]

\* f.io and m.io were first found as "*.f.io" and "*.m.io": the nodes under
\* the keys "f.io" and "m.io" carry the wildcard names
C18_Witness ==
  /\ scn = 3
  /\ BFSReturned
  /\ {sF, sM} \subseteq DOMAIN domainGraph
  /\ domainGraph[sF].Domain = Wild(sF)
  /\ domainGraph[sM].Domain = Wild(sM)

\* ------------------------------------------------------------------------
\* the canonical domains at distance <= d from the start domain in the
\* network of the run
RECURSIVE ReachWithin(_)
ReachWithin(d) ==
  IF d = 0 THEN {directDomain(startDomain)}
  ELSE LET r == ReachWithin(d - 1)
       IN  r \cup { directDomain(n) : n \in UNION { Range(BFSPeers(k)) : k \in r } }

\* the claim as it was made: the keys of the final domainGraph are the
\* domains at distance <= maxDepth, the start domain at depth 0
C19_Original ==
  BFSReturned =>
    /\ DOMAIN domainGraph = ReachWithin(maxDepth)
    /\ domainGraph[directDomain(startDomain)].Depth = 0

\* C19: when BFS has returned, domainGraph holds the start domain at depth 0
\* and every domain at distance <= 1 (if maxDepth >= 1); each of its keys is
\* at distance <= maxDepth and is recorded at a depth that is at least its
\* distance; its keys are exactly the start domain and the domains named by
\* the nodes recorded at a depth < maxDepth; and they are all the domains at
\* distance <= maxDepth if every node is recorded at its distance.
C19_GraphWithinDistance ==
  BFSReturned =>
    /\ directDomain(startDomain) \in DOMAIN domainGraph
    /\ domainGraph[directDomain(startDomain)].Depth = 0
    /\ ReachWithin(IF maxDepth >= 1 THEN 1 ELSE 0) \subseteq DOMAIN domainGraph
    /\ DOMAIN domainGraph \subseteq ReachWithin(maxDepth)
    /\ \A k \in DOMAIN domainGraph : k \in ReachWithin(domainGraph[k].Depth)
    /\ DOMAIN domainGraph = Within
    /\ (\A k \in DOMAIN domainGraph :
           domainGraph[k].Depth = 0 \/ k \notin ReachWithin(domainGraph[k].Depth - 1))
         => DOMAIN domainGraph = ReachWithin(maxDepth)

\* maxDepth = 2: v is at distance 2 (s names u, u names v) and is not in
\* the final domainGraph, u having been admitted at depth 2
C19_Witness ==
  /\ scn = 4 /\ maxDepth = 2
  /\ BFSReturned
  /\ sV \in ReachWithin(2)
  /\ sV \notin DOMAIN domainGraph
  /\ domainGraph[sU].Depth = 2

\* ------------------------------------------------------------------------
\* C20: when BFS has returned, depth (printed as "Graph Depth:") is the
\* greatest Depth of the nodes in domainGraph.
C20_DepthIsGraphDepth ==
  BFSReturned =>
    /\ \A k \in DOMAIN domainGraph : domainGraph[k].Depth <= depth
    /\ \E k \in DOMAIN domainGraph : domainGraph[k].Depth = depth

====
